---- MODULE Spec2Model ----
(***************************************************************************)
(* download_textures.py: a fixed manifest of textures is downloaded by a   *)
(* thread pool; every download is streamed to a file while a SHA-256       *)
(* accumulator is fed, the digest is compared with the expected one, and   *)
(* main turns the per-task return values into the list of failures and the *)
(* process exit code.                                                      *)
(***************************************************************************)
EXTENDS Integers, Sequences, FiniteSets, TLC

VARIABLES
    literal,           \* the entries of the dict literal, as written
    textures,          \* the dict `textures`, in insertion order
    permit,            \* per task: the transport / file events the environment may produce
    shape,             \* per task: "pair" if the dict value is a (remote, digest) pair
    dirstate,          \* the state of the directory textures/
    encoding,          \* the encoding of sys.stdout
    fs,                \* the destination files, by path: the bytes on disk
    buf,               \* per task: bytes out_file.write accepted that are still in the file object's buffer
    submitted,         \* number of work items executor.map has queued
    pc,                \* per task: where its download_texture call stands
    runs,              \* per task: number of calls of download_texture made for it
    chunk,             \* per task: the chunk in hand (local `chunk`)
    received,          \* per task: what response.read has returned, call by call
    hasher,            \* per task: the state of `hasher`
    ret,               \* per task: the value download_texture returned
    outcome,           \* per task: which return statement produced it
    exc,               \* per task: the call that raised the exception caught at line 87
    stdout,            \* the writes to sys.stdout so far
    mpc,               \* where main stands
    collected,         \* the results main's for loop has consumed
    failed_downloads,  \* main's list
    exit_code          \* the argument of sys.exit, once called

vars == <<literal, textures, permit, shape, dirstate, encoding, fs, buf,
          submitted, pc, runs, chunk, received, hasher, ret, outcome, exc, stdout,
          mpc, collected, failed_downloads, exit_code>>

----------------------------------------------------------------------------
(* Bounds of the model *)

\* longest dict literal Init draws
MaxEntries == 2
\* most chunks one response delivers before end of stream
MaxChunks == 2
\* in the runs of SpecPool: most status texts on stdout ahead of an older task's
MaxOvertakes == 0
\* in the runs of SpecPool: most worker threads runnable at the same time
MaxRunnable == 1

(* Program constants *)

max_workers == 10
TEXTURES_DIR == "textures"

----------------------------------------------------------------------------
(* Python values *)

\* None, and a value v that is not None
None == <<>>
Some(v) == <<v>>

\* `if result:` on a value that is None or a str
Truthy(v) == v # None /\ v[1] # ""

\* `actual_hash != expected_hash`, expected_hash being None or a str
PyNe(actual, expected) == expected = None \/ expected[1] # actual

\* os.path.join for a relative second component
PathJoin(dir, name) == dir \o "/" \o name

\* ', '.join(names)
RECURSIVE JoinNames(_)
JoinNames(names) ==
    IF names = <<>> THEN ""
    ELSE IF Len(names) = 1 THEN names[1]
    ELSE names[1] \o ", " \o JoinNames(Tail(names))

----------------------------------------------------------------------------
(* hashlib.sha256: a 16-bit polynomial accumulator stands for the 256-bit  *)
(* one; its digest is four lowercase hex digits.                           *)

HexDigits == <<"0", "1", "2", "3", "4", "5", "6", "7",
               "8", "9", "a", "b", "c", "d", "e", "f">>

sha256_new == 7

RECURSIVE sha256_update(_, _)
sha256_update(h, bytes) ==
    IF bytes = <<>> THEN h
    ELSE sha256_update((h * 33 + Head(bytes) + 1) % 65536, Tail(bytes))

hexdigest(h) ==
    << HexDigits[((h \div 4096) % 16) + 1], HexDigits[((h \div 256) % 16) + 1],
       HexDigits[((h \div 16) % 16) + 1],   HexDigits[(h % 16) + 1] >>

\* the bytes of a sequence of chunks
RECURSIVE Flatten(_)
Flatten(chunks) ==
    IF chunks = <<>> THEN <<>> ELSE Head(chunks) \o Flatten(Tail(chunks))

\* hexdigest of a whole content
DigestOf(bytes) == hexdigest(sha256_update(sha256_new, bytes))

----------------------------------------------------------------------------
(* The manifest *)

\* d[key] = value on a dict kept as a sequence of entries in insertion order
DictPut_append(d, e) == Append(d, e)
DictPut(d, e) ==
    IF \E j \in 1..Len(d) : d[j].filename = e.filename
    THEN [j \in 1..Len(d) |-> IF d[j].filename = e.filename THEN e ELSE d[j]]
    ELSE Append(d, e)

\* the dict a dict literal with these entries evaluates to
RECURSIVE DictLiteral(_)
DictLiteral(entries) ==
    IF entries = <<>> THEN <<>>
    ELSE DictPut(DictLiteral(SubSeq(entries, 1, Len(entries) - 1)),
                 entries[Len(entries)])

Entry(f, r, h) == [filename |-> f, remote_name |-> r, expected_hash |-> h]

\* the literal of the source, digests cut to the width of the model's digest
SourceLiteral ==
    << Entry("sun.jpg",     "2k_sun.jpg",             Some(<<"d","6","8","e">>)),
       Entry("mercury.jpg", "2k_mercury.jpg",         Some(<<"4","1","5","5">>)),
       Entry("venus.jpg",   "2k_venus_surface.jpg",   Some(<<"6","f","8","e">>)),
       Entry("earth.jpg",   "2k_earth_daymap.jpg",    Some(<<"a","1","5","5">>)),
       Entry("moon.jpg",    "2k_moon.jpg",            Some(<<"b","6","8","e">>)),
       Entry("mars.jpg",    "2k_mars.jpg",            Some(<<"c","1","5","5">>)),
       Entry("jupiter.jpg", "2k_jupiter.jpg",         Some(<<"e","6","8","e">>)),
       Entry("saturn.jpg",  "2k_saturn.jpg",          Some(<<"f","1","5","5">>)),
       Entry("uranus.jpg",  "2k_uranus.jpg",          Some(<<"0","6","8","e">>)),
       Entry("neptune.jpg", "2k_neptune.jpg",         Some(<<"1","1","5","5">>)),
       Entry("stars.jpg",   "2k_stars_milky_way.jpg", Some(<<"2","6","8","e">>)) >>

N == Len(textures)
Tasks == 1..N

\* download_args of task i, unpacked
filename(i) == textures[i].filename
expected_hash(i) == textures[i].expected_hash
filepath(i) == PathJoin(TEXTURES_DIR, filename(i))

----------------------------------------------------------------------------
(* Inputs Init draws *)

Names == {"", "a.bin", "b.bin"}
Chunks == {<<1>>, <<2, 3>>}
\* the content the expected digests of the drawn manifests were computed from
RefContent == <<1>>
Expecteds == {None, Some(DigestOf(RefContent))}
Entries == {Entry(f, "a_remote", h) : f \in Names, h \in Expecteds}
Literals == UNION {[1..n -> Entries] : n \in 0..MaxEntries}

Events == {"refuse", "connect", "fopen_ok", "fopen_fail", "data", "eof",
           "reset", "wr_ok", "wr_fail", "close_fail"}

NoFile == [exists |-> FALSE, data |-> <<>>]
File(bytes) == [exists |-> TRUE, data |-> bytes]
\* what a destination may hold before the run
Stale == <<9>>
PathsOf(d) == {PathJoin(TEXTURES_DIR, d[j].filename) : j \in 1..Len(d)}
\* the directory on a first run, and on a run after an earlier one
FreshDir(d) == [p \in PathsOf(d) |-> NoFile]
RerunDir(d) == [p \in PathsOf(d) |->
                  IF p = PathJoin(TEXTURES_DIR, "") THEN NoFile ELSE File(Stale)]

----------------------------------------------------------------------------
(* The initial states *)

\* the faults and answers the environment of the pool run is limited to
PoolPlan(i) ==
    IF i <= 7 THEN {"connect", "fopen_ok", "eof"}
    ELSE IF i = 8 THEN {"connect", "fopen_fail"}
    ELSE IF i = 9 THEN {"connect", "fopen_ok", "reset"}
    ELSE IF i = 10 THEN {"connect", "fopen_ok", "data", "wr_fail"}
    ELSE {"refuse", "connect", "fopen_ok", "data", "wr_ok", "eof", "reset", "close_fail"}

Line(kind, text) == [kind |-> kind, text |-> text]

\* main up to the creation of the executor, the manifest and environment given
InitMain ==
    /\ submitted = 0
    /\ pc = [i \in Tasks |-> "queued"]
    /\ runs = [i \in Tasks |-> 0]
    /\ chunk = [i \in Tasks |-> <<>>]
    /\ buf = [i \in Tasks |-> <<>>]
    /\ received = [i \in Tasks |-> <<>>]
    /\ hasher = [i \in Tasks |-> sha256_new]
    /\ ret = [i \in Tasks |-> None]
    /\ outcome = [i \in Tasks |-> "none"]
    /\ exc = [i \in Tasks |-> "none"]
    /\ stdout = << Line("start", TEXTURES_DIR) >>
    /\ mpc = "submit"
    /\ collected = <<>>
    /\ failed_downloads = <<>>
    /\ exit_code = None

Init ==
    /\ literal \in Literals
    /\ textures = DictLiteral(literal)
    /\ permit = [i \in Tasks |-> Events]
    /\ shape = [i \in Tasks |-> "pair"]
    /\ dirstate = "writable"
    /\ encoding = "utf-8"
    /\ fs \in {FreshDir(textures), RerunDir(textures)}
    /\ InitMain

InitPool ==
    /\ literal = SourceLiteral
    /\ textures = DictLiteral(literal)
    /\ permit = [i \in Tasks |-> PoolPlan(i)]
    /\ shape = [i \in Tasks |-> "pair"]
    /\ dirstate = "writable"
    /\ encoding = "utf-8"
    /\ fs = FreshDir(textures)
    /\ InitMain

----------------------------------------------------------------------------
(* The thread pool *)

Running == {j \in Tasks : pc[j] \notin {"queued", "done", "raised"}}

\* the tasks in the order they finished: the order of their lines on stdout
TaskLines == SelectSeq(stdout, LAMBDA l : l.kind \in {"verified", "mismatch", "failed"})
FinishOrder == [j \in 1..Len(TaskLines) |->
                  CHOOSE i \in Tasks : filename(i) = TaskLines[j].text]
\* task j has written its status text
Reported(j) == pc[j] \in {"newline", "return", "done"}
\* the status text of task j stands on stdout before that of task l
ReportedBefore(j, l) ==
    LET lines == TaskLines IN
    \E a \in 1..Len(lines) :
        /\ lines[a].text = filename(j)
        /\ \E b \in (a + 1)..Len(lines) : lines[b].text = filename(l)
\* the tasks whose status text was written ahead of an older task's
OutOfOrder ==
    {j \in Tasks : /\ Reported(j)
                   /\ \E l \in 1..(j - 1) : ~Reported(l) \/ ReportedBefore(j, l)}
\* the tasks whose worker thread can take a step of its own: it has the task
\* and waits neither for urlopen nor for response.read to return
Runnable == {j \in Tasks : pc[j] \notin {"queued", "urlopen", "read", "done", "raised"}}

\* a worker thread exists or can be created for the next work item
WorkerAvailable_unbounded == TRUE
WorkerAvailable == Cardinality(Running) < max_workers

\* the work queue is first in, first out
NextInQueue_unordered(i) == i <= submitted
NextInQueue(i) == i <= submitted /\ \A j \in 1..(i - 1) : pc[j] # "queued"

\* leaving the with block: executor.shutdown(wait=True)
PoolJoined_nowait == TRUE
PoolJoined == \A j \in Tasks : pc[j] \in {"done", "raised"}

UNCHANGED_env == UNCHANGED <<literal, textures, permit, shape, dirstate, encoding>>
UNCHANGED_main == UNCHANGED <<submitted, mpc, collected, failed_downloads, exit_code>>

\* a worker thread takes work item i from the queue
Dequeue(i) ==
    /\ pc[i] = "queued"
    /\ NextInQueue(i)
    /\ WorkerAvailable
    /\ pc' = [pc EXCEPT ![i] = "taken"]
    /\ UNCHANGED <<fs, buf, runs, chunk, received, hasher, ret, outcome, exc, stdout>>
    /\ UNCHANGED_env /\ UNCHANGED_main

\* the worker calls download_texture(args), which unpacks args and builds
\* url, filepath and hasher: lines 56-62
Start(i) ==
    /\ pc[i] = "taken"
    /\ shape[i] = "pair"
    /\ pc' = [pc EXCEPT ![i] = "urlopen"]
    /\ runs' = [runs EXCEPT ![i] = @ + 1]
    /\ UNCHANGED <<fs, buf, chunk, received, hasher, ret, outcome, exc, stdout>>
    /\ UNCHANGED_env /\ UNCHANGED_main

----------------------------------------------------------------------------
(* download_texture *)

\* what the function returns for the way it ended
ReturnValue(i, status) == IF status = "Success" THEN None ELSE Some(filename(i))

StatusLine(i, status) ==
    Line(CASE status = "Success" -> "verified"
           [] status = "DigestMismatch" -> "mismatch"
           [] OTHER -> "failed",
         filename(i))

\* sys.stdout can encode the marks of the status texts (lines 81, 85, 88)
CanEncode == encoding = "utf-8"

\* the first write of a print: the status text. The outcome is decided.
PrintStatus(i, status) ==
    /\ pc' = [pc EXCEPT ![i] = "newline"]
    /\ outcome' = [outcome EXCEPT ![i] = status]
    /\ stdout' = Append(stdout, StatusLine(i, status))
    /\ UNCHANGED <<ret, exc>>

\* the files after the verdict: `os.remove(filepath)` is commented out
FilesAfterVerdict_remove(i, status) ==
    IF status = "DigestMismatch" THEN [fs EXCEPT ![filepath(i)] = NoFile] ELSE fs
FilesAfterVerdict(i, status) == fs

\* the second write of the print: the line end
EndPrint(i) ==
    /\ pc[i] = "newline"
    /\ stdout' = Append(stdout, Line("newline", ""))
    /\ pc' = [pc EXCEPT ![i] = "return"]
    /\ UNCHANGED <<fs, buf, runs, chunk, received, hasher, ret, outcome, exc>>
    /\ UNCHANGED_env /\ UNCHANGED_main

\* after the print: line 82 and the return of line 83, which leaves
\* `with urlopen` and closes the response; or the return of line 86 or 89.
\* The worker is free once the call has returned.
Return(i) ==
    /\ pc[i] = "return"
    /\ fs' = FilesAfterVerdict(i, outcome[i])
    /\ ret' = [ret EXCEPT ![i] = ReturnValue(i, outcome[i])]
    /\ pc' = [pc EXCEPT ![i] = "done"]
    /\ UNCHANGED <<buf, runs, chunk, received, hasher, outcome, exc, stdout>>
    /\ UNCHANGED_env /\ UNCHANGED_main

\* the exception raised by `call` in the try block leaves the with blocks and
\* reaches `except Exception as e`
Caught(i, call) ==
    /\ exc' = [exc EXCEPT ![i] = call]
    /\ pc' = [pc EXCEPT ![i] = "except"]
    /\ UNCHANGED <<ret, outcome, stdout>>

\* the files after the except clause: it removes nothing
FilesAfterError_remove(i) == [fs EXCEPT ![filepath(i)] = NoFile]
FilesAfterError(i) == fs

\* the except clause prints the failure (line 88); when the text cannot be
\* encoded its print raises and the call raises instead of returning
Except(i) ==
    /\ pc[i] = "except"
    /\ IF CanEncode
       THEN /\ PrintStatus(i, "NetworkFailure")
            /\ fs' = FilesAfterError(i)
       ELSE /\ pc' = [pc EXCEPT ![i] = "raised"]
            /\ UNCHANGED <<fs, outcome, stdout, ret, exc>>
    /\ UNCHANGED <<buf, runs, chunk, received, hasher>>
    /\ UNCHANGED_env /\ UNCHANGED_main

\* urlopen returns a response
UrlOpenOk(i) ==
    /\ pc[i] = "urlopen"
    /\ "connect" \in permit[i]
    /\ pc' = [pc EXCEPT ![i] = "open"]
    /\ UNCHANGED <<fs, buf, runs, chunk, received, hasher, ret, outcome, exc, stdout>>
    /\ UNCHANGED_env /\ UNCHANGED_main

\* urlopen raises
UrlOpenFail_truncates(i) ==
    /\ pc[i] = "urlopen"
    /\ "refuse" \in permit[i]
    /\ Caught(i, "urlopen")
    /\ fs' = [fs EXCEPT ![filepath(i)] = File(<<>>)]
    /\ UNCHANGED <<buf, runs, chunk, received, hasher>>
    /\ UNCHANGED_env /\ UNCHANGED_main

UrlOpenFail(i) ==
    /\ pc[i] = "urlopen"
    /\ "refuse" \in permit[i]
    /\ Caught(i, "urlopen")
    /\ UNCHANGED <<fs, buf, runs, chunk, received, hasher>>
    /\ UNCHANGED_env /\ UNCHANGED_main

\* open(filepath, 'wb') on the directory itself raises IsADirectoryError
IsDirectory(path) == path = PathJoin(TEXTURES_DIR, "")

\* open(filepath, 'wb') creates or truncates the file
OpenFileOk(i) ==
    /\ pc[i] = "open"
    /\ "fopen_ok" \in permit[i]
    /\ dirstate = "writable"
    /\ ~IsDirectory(filepath(i))
    /\ fs' = [fs EXCEPT ![filepath(i)] = File(<<>>)]
    /\ buf' = [buf EXCEPT ![i] = <<>>]
    /\ pc' = [pc EXCEPT ![i] = "read"]
    /\ UNCHANGED <<runs, chunk, received, hasher, ret, outcome, exc, stdout>>
    /\ UNCHANGED_env /\ UNCHANGED_main

\* open(filepath, 'wb') raises
OpenFileFail(i) ==
    /\ pc[i] = "open"
    /\ "fopen_fail" \in permit[i] \/ IsDirectory(filepath(i)) \/ dirstate # "writable"
    /\ Caught(i, "open")
    /\ UNCHANGED <<fs, buf, runs, chunk, received, hasher>>
    /\ UNCHANGED_env /\ UNCHANGED_main

\* response.read returns a chunk
ReadChunk(i) ==
    /\ pc[i] = "read"
    /\ "data" \in permit[i]
    /\ Len(received[i]) < MaxChunks
    /\ \E c \in Chunks :
          /\ chunk' = [chunk EXCEPT ![i] = c]
          /\ received' = [received EXCEPT ![i] = Append(@, c)]
    /\ pc' = [pc EXCEPT ![i] = "update"]
    /\ UNCHANGED <<fs, buf, runs, hasher, ret, outcome, exc, stdout>>
    /\ UNCHANGED_env /\ UNCHANGED_main

\* the beginnings of a sequence of bytes: all of them, and those short of it
Prefixes(bytes) == {SubSeq(bytes, 1, k) : k \in 0..Len(bytes)}
StrictPrefixes(bytes) == {SubSeq(bytes, 1, k) : k \in 0..(Len(bytes) - 1)}

\* the files once these bytes have been added to the file of task i
FilesWith(i, bytes) == [fs EXCEPT ![filepath(i)] = File(@.data \o bytes)]
\* leaving `with open` closes the file: the buffered bytes reach the file
Flushed(i) == FilesWith(i, buf[i])

\* the verdict of lines 74-86 on a stream read to its end
Verdict_lenient(actual_hash, expected) == "Success"
Verdict(actual_hash, expected) ==
    IF PyNe(actual_hash, expected) THEN "DigestMismatch" ELSE "Success"

\* response.read returns b'': the loop ends and leaving `with open` closes
\* the file
ReadEnd(i) ==
    /\ pc[i] = "read"
    /\ "eof" \in permit[i]
    /\ chunk' = [chunk EXCEPT ![i] = <<>>]
    /\ received' = [received EXCEPT ![i] = Append(@, <<>>)]
    /\ fs' = Flushed(i)
    /\ buf' = [buf EXCEPT ![i] = <<>>]
    /\ pc' = [pc EXCEPT ![i] = "verify"]
    /\ UNCHANGED <<runs, hasher, ret, outcome, exc, stdout>>
    /\ UNCHANGED_env /\ UNCHANGED_main

\* lines 74-85: the digest is compared and the verdict printed; a print that
\* cannot encode its text raises inside the try block
Verify(i) ==
    /\ pc[i] = "verify"
    /\ IF CanEncode
       THEN PrintStatus(i, Verdict(hexdigest(hasher[i]), expected_hash(i)))
       ELSE Caught(i, "print")
    /\ UNCHANGED <<fs, buf, runs, chunk, received, hasher>>
    /\ UNCHANGED_env /\ UNCHANGED_main

\* response.read raises; the file is closed on the way to the except clause
ReadFail(i) ==
    /\ pc[i] = "read"
    /\ "reset" \in permit[i]
    /\ Caught(i, "read")
    /\ fs' = Flushed(i)
    /\ buf' = [buf EXCEPT ![i] = <<>>]
    /\ UNCHANGED <<runs, chunk, received, hasher>>
    /\ UNCHANGED_env /\ UNCHANGED_main

\* response.read returns b'' and closing the file at the end of `with open`
\* raises: some of the buffered bytes may have reached the file
CloseFail(i) ==
    /\ pc[i] = "read"
    /\ "eof" \in permit[i]
    /\ "close_fail" \in permit[i]
    /\ Caught(i, "close")
    /\ chunk' = [chunk EXCEPT ![i] = <<>>]
    /\ received' = [received EXCEPT ![i] = Append(@, <<>>)]
    /\ \E q \in Prefixes(buf[i]) : fs' = FilesWith(i, q)
    /\ buf' = [buf EXCEPT ![i] = <<>>]
    /\ UNCHANGED <<runs, hasher>>
    /\ UNCHANGED_env /\ UNCHANGED_main

\* response.read raises and closing the file on the way to the except clause
\* raises too: the except clause receives the error of the close
ReadFailCloseFail(i) ==
    /\ pc[i] = "read"
    /\ "reset" \in permit[i]
    /\ "close_fail" \in permit[i]
    /\ Caught(i, "close")
    /\ \E q \in Prefixes(buf[i]) : fs' = FilesWith(i, q)
    /\ buf' = [buf EXCEPT ![i] = <<>>]
    /\ UNCHANGED <<runs, chunk, received, hasher>>
    /\ UNCHANGED_env /\ UNCHANGED_main

\* hasher.update(chunk)
HashChunk_skip(i) ==
    /\ pc[i] = "update"
    /\ pc' = [pc EXCEPT ![i] = "write"]
    /\ UNCHANGED <<fs, buf, runs, chunk, received, hasher, ret, outcome, exc, stdout>>
    /\ UNCHANGED_env /\ UNCHANGED_main

HashChunk(i) ==
    /\ pc[i] = "update"
    /\ hasher' = [hasher EXCEPT ![i] = sha256_update(@, chunk[i])]
    /\ pc' = [pc EXCEPT ![i] = "write"]
    /\ UNCHANGED <<fs, buf, runs, chunk, received, ret, outcome, exc, stdout>>
    /\ UNCHANGED_env /\ UNCHANGED_main

\* out_file.write(chunk) returns: of the buffered bytes and the chunk a
\* beginning (none, a part, or all) is written to the file and the rest is
\* kept in the buffer of the file object
WriteChunkOk(i) ==
    /\ pc[i] = "write"
    /\ "wr_ok" \in permit[i]
    /\ LET bytes == buf[i] \o chunk[i] IN
          \E k \in 0..Len(bytes) :
              /\ fs' = FilesWith(i, SubSeq(bytes, 1, k))
              /\ buf' = [buf EXCEPT ![i] = SubSeq(bytes, k + 1, Len(bytes))]
    /\ pc' = [pc EXCEPT ![i] = "read"]
    /\ UNCHANGED <<runs, chunk, received, hasher, ret, outcome, exc, stdout>>
    /\ UNCHANGED_env /\ UNCHANGED_main

\* out_file.write(chunk) raises: a part of the buffer and of the chunk may
\* have reached the file; the close on the way to the except clause adds
\* nothing to it, and if it raises too the except clause receives its error
WriteChunkFail(i) ==
    /\ pc[i] = "write"
    /\ "wr_fail" \in permit[i]
    /\ \E call \in {"write"} \cup (IF "close_fail" \in permit[i] THEN {"close"} ELSE {}) :
          Caught(i, call)
    /\ \E q \in StrictPrefixes(buf[i] \o chunk[i]) : fs' = FilesWith(i, q)
    /\ buf' = [buf EXCEPT ![i] = <<>>]
    /\ UNCHANGED <<runs, chunk, received, hasher>>
    /\ UNCHANGED_env /\ UNCHANGED_main

----------------------------------------------------------------------------
(* main *)

UNCHANGED_tasks == UNCHANGED <<fs, buf, pc, runs, chunk, received, hasher, ret, outcome, exc>>

\* executor.map submits the next element of download_args
Submit ==
    /\ mpc = "submit"
    /\ submitted < N
    /\ submitted' = submitted + 1
    /\ UNCHANGED <<mpc, collected, failed_downloads, exit_code, stdout>>
    /\ UNCHANGED_env /\ UNCHANGED_tasks

\* the with block is left once the pool has shut down
Shutdown ==
    /\ mpc = "submit"
    /\ submitted = N
    /\ PoolJoined
    /\ mpc' = "collect"
    /\ UNCHANGED <<submitted, collected, failed_downloads, exit_code, stdout>>
    /\ UNCHANGED_env /\ UNCHANGED_tasks

\* the task whose result the iterator of executor.map yields k-th
ResultIndex_as_completed(k) == FinishOrder[k]
ResultIndex(k) == k

\* the iterator of executor.map is exhausted
ResultsExhausted_early == Len(collected) + 1 >= N
ResultsExhausted == Len(collected) = N

\* one turn of `for result in results`; the iterator waits for the future
Collect ==
    /\ mpc = "collect"
    /\ ~ResultsExhausted
    /\ Len(collected) < N
    /\ LET i == ResultIndex(Len(collected) + 1) IN
          /\ pc[i] = "done"
          /\ collected' = Append(collected, ret[i])
          /\ failed_downloads' = IF Truthy(ret[i])
                                 THEN Append(failed_downloads, ret[i][1])
                                 ELSE failed_downloads
    /\ UNCHANGED <<submitted, mpc, exit_code, stdout>>
    /\ UNCHANGED_env /\ UNCHANGED_tasks

\* the status main exits with
ExitStatus(failed) == IF failed # <<>> THEN 1 ELSE 0

\* lines 121-130; the print of line 123 raises when the text cannot be encoded
Report ==
    /\ mpc = "collect"
    /\ ResultsExhausted
    /\ IF CanEncode
       THEN /\ stdout' = stdout \o << Line("time", ""),
                                       IF failed_downloads # <<>>
                                       THEN Line("error", JoinNames(failed_downloads))
                                       ELSE Line("ok", "") >>
            /\ exit_code' = Some(ExitStatus(failed_downloads))
            /\ mpc' = "exited"
       ELSE /\ mpc' = "crashed"
            /\ exit_code' = Some(1)
            /\ UNCHANGED stdout
    /\ UNCHANGED <<submitted, collected, failed_downloads>>
    /\ UNCHANGED_env /\ UNCHANGED_tasks

----------------------------------------------------------------------------
Next ==
    \/ Submit
    \/ \E i \in Tasks : Dequeue(i)
    \/ \E i \in Tasks : Start(i)
    \/ \E i \in Tasks : UrlOpenOk(i)
    \/ \E i \in Tasks : UrlOpenFail(i)
    \/ \E i \in Tasks : OpenFileOk(i)
    \/ \E i \in Tasks : OpenFileFail(i)
    \/ \E i \in Tasks : ReadChunk(i)
    \/ \E i \in Tasks : ReadEnd(i)
    \/ \E i \in Tasks : ReadFail(i)
    \/ \E i \in Tasks : HashChunk(i)
    \/ \E i \in Tasks : WriteChunkOk(i)
    \/ \E i \in Tasks : WriteChunkFail(i)
    \/ \E i \in Tasks : CloseFail(i)
    \/ \E i \in Tasks : ReadFailCloseFail(i)
    \/ \E i \in Tasks : EndPrint(i)
    \/ \E i \in Tasks : Return(i)
    \/ \E i \in Tasks : Verify(i)
    \/ \E i \in Tasks : Except(i)
    \/ Shutdown
    \/ Collect
    \/ Report

\* The pool does not order its worker threads, and the transport answers the
\* tasks in any order: every interleaving of the steps is a run.
Spec == Init /\ [][Next]_vars

\* The runs of the pool on the manifest of the source that are explored: the
\* runs in which, at every moment, at most MaxRunnable worker threads are
\* runnable and at most MaxOvertakes status texts stand on stdout ahead of the
\* text of an older task. Every step of Next that leads to such a state is
\* taken; the steps themselves are not restricted.
Bounded ==
    /\ Cardinality(Runnable) <= MaxRunnable
    /\ Cardinality(OutOfOrder) <= MaxOvertakes

NextPool ==
    \/ Submit /\ Bounded'
    \/ \E i \in Tasks : Dequeue(i) /\ Bounded'
    \/ \E i \in Tasks : Start(i) /\ Bounded'
    \/ \E i \in Tasks : UrlOpenOk(i) /\ Bounded'
    \/ \E i \in Tasks : UrlOpenFail(i) /\ Bounded'
    \/ \E i \in Tasks : OpenFileOk(i) /\ Bounded'
    \/ \E i \in Tasks : OpenFileFail(i) /\ Bounded'
    \/ \E i \in Tasks : ReadChunk(i) /\ Bounded'
    \/ \E i \in Tasks : ReadEnd(i) /\ Bounded'
    \/ \E i \in Tasks : ReadFail(i) /\ Bounded'
    \/ \E i \in Tasks : HashChunk(i) /\ Bounded'
    \/ \E i \in Tasks : WriteChunkOk(i) /\ Bounded'
    \/ \E i \in Tasks : WriteChunkFail(i) /\ Bounded'
    \/ \E i \in Tasks : CloseFail(i) /\ Bounded'
    \/ \E i \in Tasks : ReadFailCloseFail(i) /\ Bounded'
    \/ \E i \in Tasks : EndPrint(i) /\ Bounded'
    \/ \E i \in Tasks : Return(i) /\ Bounded'
    \/ \E i \in Tasks : Verify(i) /\ Bounded'
    \/ \E i \in Tasks : Except(i) /\ Bounded'
    \/ Shutdown /\ Bounded'
    \/ Collect /\ Bounded'
    \/ Report /\ Bounded'

SpecPool == InitPool /\ [][NextPool]_vars

----------------------------------------------------------------------------
(* Manifests and directories beyond those of the source as shipped: a value  *)
(* that is a bare remote name, as the docstring of download_texture          *)
(* describes args; an expected digest written in upper case; a directory     *)
(* textures/ that is missing, cannot be created, or cannot be written to.    *)

\* str.upper on a hex digest
UpperHex(c) ==
    CASE c = "a" -> "A" [] c = "b" -> "B" [] c = "c" -> "C"
      [] c = "d" -> "D" [] c = "e" -> "E" [] c = "f" -> "F" [] OTHER -> c
Upper(digest) == [k \in 1..Len(digest) |-> UpperHex(digest[k])]

WideExpecteds == {Some(DigestOf(RefContent)), Some(Upper(DigestOf(RefContent)))}
WideLiterals ==
    {<< Entry("a.bin", "a_remote", h) >> : h \in WideExpecteds}
    \cup {<< Entry("a.bin", "a_remote", h), Entry("b.bin", "b_remote", g) >> :
             h \in WideExpecteds, g \in WideExpecteds}
Shapes == {"pair", "str"}
DirStates == {"writable", "readonly", "missing", "uncreatable"}
Encodings == {"utf-8", "ascii"}

InitWide ==
    /\ literal \in WideLiterals
    /\ textures = DictLiteral(literal)
    /\ permit = [i \in Tasks |-> Events]
    /\ shape \in [Tasks -> Shapes]
    /\ dirstate \in DirStates
    /\ encoding \in Encodings
    /\ fs = FreshDir(textures)
    /\ submitted = 0
    /\ pc = [i \in Tasks |-> "queued"]
    /\ runs = [i \in Tasks |-> 0]
    /\ chunk = [i \in Tasks |-> <<>>]
    /\ buf = [i \in Tasks |-> <<>>]
    /\ received = [i \in Tasks |-> <<>>]
    /\ hasher = [i \in Tasks |-> sha256_new]
    /\ ret = [i \in Tasks |-> None]
    /\ outcome = [i \in Tasks |-> "none"]
    /\ exc = [i \in Tasks |-> "none"]
    /\ stdout = <<>>
    /\ mpc = "mkdir"
    /\ collected = <<>>
    /\ failed_downloads = <<>>
    /\ exit_code = None

\* lines 93-96: the directory exists, or os.makedirs creates it
EnsureDir ==
    /\ mpc = "mkdir"
    /\ dirstate # "uncreatable"
    /\ dirstate' = IF dirstate = "missing" THEN "writable" ELSE dirstate
    /\ stdout' = << Line("start", TEXTURES_DIR) >>
    /\ mpc' = "submit"
    /\ UNCHANGED <<literal, textures, permit, shape, encoding>>
    /\ UNCHANGED <<submitted, collected, failed_downloads, exit_code>>
    /\ UNCHANGED_tasks

\* an exception nobody catches ends main: traceback, exit status 1
Uncaught ==
    /\ mpc' = "crashed"
    /\ exit_code' = Some(1)
    /\ UNCHANGED <<submitted, collected, failed_downloads, stdout>>

\* line 94: os.makedirs raises
EnsureDirFail ==
    /\ mpc = "mkdir"
    /\ dirstate = "uncreatable"
    /\ Uncaught
    /\ UNCHANGED_env /\ UNCHANGED_tasks

\* the worker calls download_texture(args); line 57 raises ValueError before
\* the try block is entered, and the future keeps it
StartRaises(i) ==
    /\ pc[i] = "taken"
    /\ shape[i] = "str"
    /\ pc' = [pc EXCEPT ![i] = "raised"]
    /\ runs' = [runs EXCEPT ![i] = @ + 1]
    /\ UNCHANGED <<fs, buf, chunk, received, hasher, ret, outcome, exc, stdout>>
    /\ UNCHANGED_env /\ UNCHANGED_main

\* `for result in results`: the iterator raises what the task raised
CollectRaises ==
    /\ mpc = "collect"
    /\ ~ResultsExhausted
    /\ Len(collected) < N
    /\ pc[ResultIndex(Len(collected) + 1)] = "raised"
    /\ Uncaught
    /\ UNCHANGED_env /\ UNCHANGED_tasks

NextWide ==
    \/ Next
    \/ EnsureDir
    \/ EnsureDirFail
    \/ \E i \in Tasks : StartRaises(i)
    \/ CollectRaises

SpecWide == InitWide /\ [][NextWide]_vars

\* the steps of the worker thread that has task i
TaskStep(i) ==
    \/ Dequeue(i) \/ Start(i) \/ StartRaises(i)
    \/ UrlOpenOk(i) \/ UrlOpenFail(i) \/ OpenFileOk(i) \/ OpenFileFail(i)
    \/ ReadChunk(i) \/ ReadEnd(i) \/ ReadFail(i) \/ CloseFail(i) \/ ReadFailCloseFail(i)
    \/ HashChunk(i) \/ WriteChunkOk(i) \/ WriteChunkFail(i)
    \/ Verify(i) \/ Except(i) \/ EndPrint(i) \/ Return(i)
\* the steps of the main thread
MainStep ==
    EnsureDir \/ EnsureDirFail \/ Submit \/ Shutdown \/ Collect \/ CollectRaises \/ Report

\* every thread is scheduled, and every call of the transport returns or
\* raises: a thread that can take a step takes one. The streams are finite
\* (MaxChunks).
SpecFair ==
    /\ InitWide
    /\ [][NextWide]_vars
    /\ WF_vars(MainStep)
    /\ \A i \in 1..MaxEntries : WF_vars(i \in Tasks /\ TaskStep(i))

----------------------------------------------------------------------------
(* Properties *)

Failures == {"NetworkFailure", "DigestMismatch"}
Statuses == {"Success"} \cup Failures
Exited == mpc = "exited"
Content(i) == Flatten(received[i])
\* the stream of task i was read to its end: response.read has returned b''
FullyReceived(i) == received[i] # <<>> /\ received[i][Len(received[i])] = <<>>
\* the call of task i has returned after lines 74-86 gave their verdict
Verified(i) == pc[i] = "done" /\ outcome[i] \in {"Success", "DigestMismatch"}
\* two entries of the literal carry the same local filename
DuplicateNames(lit) ==
    \E a, b \in 1..Len(lit) : a # b /\ lit[a].filename = lit[b].filename

\* C1: the exit code is 0 iff every task's outcome is Success, and 1 iff at
\* least one outcome is NetworkFailure or DigestMismatch, for any filenames,
\* any order of the entries and the empty manifest.
C1_ExitCodeIffAllSuccess ==
    Exited =>
        /\ exit_code = Some(0) <=> \A i \in Tasks : outcome[i] = "Success"
        /\ exit_code = Some(1) <=> \E i \in Tasks : outcome[i] \in Failures

\* C2: main collects exactly N outcomes, the k-th being the one of the k-th
\* manifest task; no task is executed twice, none is skipped, and every
\* outcome is None or the filename of its own task.
C2_OneOutcomePerTask ==
    /\ \A i \in Tasks : runs[i] <= 1
    /\ Len(collected) <= N
    /\ \A k \in 1..Len(collected) :
          /\ runs[k] = 1
          /\ outcome[k] \in Statuses
          /\ collected[k] = (IF outcome[k] = "Success" THEN None ELSE Some(filename(k)))
    /\ Exited => Len(collected) = N

C2_Witness ==
    /\ Exited
    /\ N = 2
    /\ collected[1] = None
    /\ collected[2] = Some("b.bin")

\* the tasks between urlopen returning and the response being closed; the
\* mismatch is printed (line 81) and the call returns (line 83) inside
\* `with urlopen`
OpenStreams ==
    {i \in Tasks : \/ pc[i] \in {"open", "read", "update", "write", "verify"}
                   \/ pc[i] \in {"newline", "return"} /\ outcome[i] = "DigestMismatch"}

\* C3: at most max_workers tasks hold an open response at any time, also
\* when the manifest has more entries than the pool has workers.
C3_OpenStreamsBounded == Cardinality(OpenStreams) <= max_workers

C3_Witness ==
    /\ N > max_workers
    /\ Cardinality(OpenStreams) = max_workers
    /\ \E i \in Tasks : i <= submitted /\ pc[i] = "queued"

\* C4: when a task fails, every task of the manifest has still run once to
\* its own outcome (a Success has the expected digest and its file holds what
\* it received), and the exit code is non-zero.
C4_FailureIsolated ==
    (Exited /\ \E i \in Tasks : outcome[i] \in Failures) =>
        /\ \A j \in Tasks :
              /\ pc[j] = "done" /\ runs[j] = 1 /\ outcome[j] \in Statuses
              /\ outcome[j] = "Success" =>
                    /\ ~PyNe(DigestOf(Content(j)), expected_hash(j))
                    /\ fs[filepath(j)] = File(Content(j))
        /\ exit_code # Some(0)

\* C5: main consumes no result and does not report before every task has
\* returned its outcome.
C5_NoPartialSummary ==
    (collected # <<>> \/ Exited) =>
        \A j \in Tasks : pc[j] = "done" /\ outcome[j] \in Statuses

C5_Witness ==
    /\ mpc = "collect"
    /\ N = 2
    /\ Len(collected) = 1

\* C6 as stated: with an expected digest and the stream read to its end, the
\* call returns Success exactly if the digest of the received bytes is the
\* expected one; content other than the one the digest was computed from is a
\* DigestMismatch.
C6_DigestDecides ==
    \A i \in Tasks :
        (FullyReceived(i) /\ pc[i] = "done" /\ expected_hash(i) # None) =>
            /\ outcome[i] = "Success" <=> DigestOf(Content(i)) = expected_hash(i)[1]
            /\ (expected_hash(i) = Some(DigestOf(RefContent)) /\ Content(i) # RefContent)
                   => outcome[i] = "DigestMismatch"

\* C6 (amended): with an expected digest, the stream read to its end and the
\* destination file closed without error, the outcome is Success exactly if
\* the digest of the received bytes is the expected one, and content other
\* than the one the digest was computed from is a DigestMismatch; when
\* closing the file raises, the outcome is NetworkFailure whatever the digest.
C6_DigestDecidesOnceClosed ==
    \A i \in Tasks :
        (FullyReceived(i) /\ pc[i] = "done" /\ expected_hash(i) # None) =>
            /\ exc[i] \in {"none", "close"}
            /\ exc[i] = "close" => outcome[i] = "NetworkFailure"
            /\ exc[i] = "none" =>
                  /\ outcome[i] = "Success" <=> DigestOf(Content(i)) = expected_hash(i)[1]
                  /\ outcome[i] \in {"Success", "DigestMismatch"}
                  /\ (expected_hash(i) = Some(DigestOf(RefContent)) /\ Content(i) # RefContent)
                         => outcome[i] = "DigestMismatch"

C6_Witness ==
    \E i, j \in Tasks :
        /\ expected_hash(i) = Some(DigestOf(RefContent))
        /\ expected_hash(j) = Some(DigestOf(RefContent))
        /\ FullyReceived(i) /\ FullyReceived(j)
        /\ pc[i] = "done" /\ pc[j] = "done"
        /\ outcome[i] = "Success" /\ Content(i) = RefContent
        /\ outcome[j] = "DigestMismatch" /\ Content(j) = <<2, 3>>

\* C7: a task without expected digest whose stream is read to its end
\* without failure is a Success.
C7_NoDigestIsSuccess ==
    \A i \in Tasks :
        (FullyReceived(i) /\ Verified(i) /\ expected_hash(i) = None) =>
            outcome[i] = "Success" /\ ret[i] = None

\* C8: after a DigestMismatch the destination file exists and holds exactly
\* the bytes received.
C8_MismatchKeepsFile ==
    \A i \in Tasks :
        outcome[i] = "DigestMismatch" => fs[filepath(i)] = File(Content(i))

C8_Witness ==
    \E i \in Tasks :
        /\ outcome[i] = "DigestMismatch"
        /\ expected_hash(i) # None
        /\ fs[filepath(i)] = File(<<2, 3>>)
        /\ Exited

\* the names are filenames of the manifest, in its order
ManifestOrder(names) ==
    /\ \A a \in 1..Len(names) : \E i \in Tasks : filename(i) = names[a]
    /\ \A a, b \in 1..Len(names) :
          a < b => \E i, j \in Tasks :
                      i < j /\ filename(i) = names[a] /\ filename(j) = names[b]

\* C9: the outcomes main consumes and the failed names it reports are in
\* manifest order, whatever the order in which the tasks finished.
C9_SummaryInManifestOrder ==
    /\ \A k \in 1..Len(collected) : collected[k] = ret[k]
    /\ ManifestOrder(failed_downloads)
    /\ Exited => \A l \in 1..Len(stdout) :
                    stdout[l].kind = "error" => stdout[l].text = JoinNames(failed_downloads)

C9_Witness ==
    /\ Exited
    /\ N = 2
    /\ FinishOrder = <<2, 1>>
    /\ failed_downloads = <<filename(1), filename(2)>>

\* C10: a literal with two entries of the same local filename is rejected at
\* startup: nothing is submitted, no task runs, and main never goes on with a
\* dict in which one entry has replaced the other.
C10_DuplicateRejected ==
    DuplicateNames(literal) =>
        /\ submitted = 0
        /\ \A i \in Tasks : runs[i] = 0
        /\ mpc = "submit"

\* the consolidated summary: the time line and the verdict line end stdout
SummaryReported ==
    /\ Len(stdout) >= 2
    /\ stdout[Len(stdout) - 1].kind = "time"
    /\ stdout[Len(stdout)].kind \in {"error", "ok"}

\* main has ended: by sys.exit, or by an exception nobody caught
Ended == mpc \in {"exited", "crashed"}

\* C11: under fair scheduling every run terminates: all N tasks return, the
\* summary is printed and main exits; once the tasks are submitted, no
\* failure of a task makes main end without the summary.
C11_RunTerminates ==
    /\ []((Ended /\ submitted = N) => SummaryReported /\ \A j \in Tasks : pc[j] = "done")
    /\ <>(/\ Exited
          /\ \A j \in Tasks : pc[j] = "done"
          /\ SummaryReported
          /\ exit_code # None)

\* C12: after aggregation the failed task names are exactly the filenames of
\* the tasks whose outcome is not Success, whatever strings the filenames are.
C12_FailedNamesExact ==
    Exited =>
        {failed_downloads[k] : k \in 1..Len(failed_downloads)}
            = {filename(i) : i \in {j \in Tasks : outcome[j] \in Failures}}

\* response.read raises in this step of task i, after received[i]
ReadRaises(i) == ReadFail(i) \/ ReadFailCloseFail(i)

\* C14 as stated: when reading the stream fails after k chunks have been read
\* and written, the outcome is NetworkFailure and the destination file stays
\* on disk holding exactly those k chunks.
C14_ReadFailureKeepsChunks ==
    /\ [](\A i \in Tasks :
             pc[i] = "done" /\ exc[i] \in {"read", "close"} =>
                 outcome[i] = "NetworkFailure")
    /\ [][\A i \in Tasks :
             ReadRaises(i) => fs'[filepath(i)] = File(Flatten(received[i]))]_vars

\* the file of task i is on disk and holds a beginning of what was received
HoldsPrefix(i) ==
    /\ fs[filepath(i)] # NoFile
    /\ fs[filepath(i)].data \in Prefixes(Flatten(received[i]))

\* C14 (amended): when reading the stream fails after k chunks have been read
\* and written, the outcome is NetworkFailure and the destination file stays
\* on disk, not deleted: it holds exactly those k chunks when closing the file
\* succeeds, and a beginning of them when the close fails too.
C14_ReadFailureKeepsPartialFile ==
    /\ [](\A i \in Tasks :
             /\ exc[i] = "read" => fs[filepath(i)] = File(Flatten(received[i]))
             /\ exc[i] = "close" => HoldsPrefix(i)
             /\ exc[i] \in {"read", "close"} =>
                   /\ pc[i] \in {"except", "newline", "return", "done"}
                   /\ pc[i] # "except" => outcome[i] = "NetworkFailure")
    /\ [][\A i \in Tasks :
             ReadRaises(i) =>
                 /\ exc'[i] \in {"read", "close"}
                 /\ buf'[i] = <<>>
                 /\ fs'[filepath(i)].exists]_vars

C14_Witness ==
    \E i \in Tasks :
        /\ exc[i] = "read"
        /\ pc[i] = "done"
        /\ ret[i] = Some(filename(i))
        /\ Len(received[i]) = MaxChunks
        /\ fs[filepath(i)] = File(Flatten(received[i]))
        /\ fs[filepath(i)] # File(Stale)

C14_WitnessEmpty ==
    \E i \in Tasks :
        /\ exc[i] = "read"
        /\ received[i] = <<>>
        /\ fs[filepath(i)] = File(<<>>)

\* line l reports the outcome of task i
Reports(l, i) ==
    /\ l.text = filename(i)
    /\ l.kind = "verified" <=> outcome[i] = "Success"
    /\ l.kind = "mismatch" <=> outcome[i] = "DigestMismatch"
    /\ l.kind = "failed" <=> outcome[i] = "NetworkFailure"

\* C15: the report is one line per task outcome, in manifest order whatever
\* the completion order, followed by the summary lines; no task line comes
\* after the summary has started.
C15_LinesInManifestOrder ==
    Exited =>
        /\ Len(stdout) = 2 * N + 3
        /\ stdout[1].kind = "start"
        /\ \A j \in 1..N : /\ Reports(stdout[2 * j], j)
                           /\ stdout[2 * j + 1].kind = "newline"
        /\ SummaryReported

\* the bytes out_file.write has accepted from task i: those in the file and
\* those still in the buffer of the file object
Written(i) == fs[filepath(i)].data \o buf[i]
\* the accumulator of task i has been fed exactly these bytes
HashedIs(i, bytes) == hasher[i] = sha256_update(sha256_new, bytes)
\* the chunks of task i before the one in flight
Earlier(i) == Flatten(SubSeq(received[i], 1, Len(received[i]) - 1))

\* C16 as stated: each chunk is written first and hashed second, so the
\* accumulator never covers a byte that is not in the file; between chunks and
\* at the end of the stream the bytes hashed are the bytes written.
C16_WrittenThenHashed ==
    \A i \in Tasks :
        /\ pc[i] = "read" \/ Verified(i) =>
              Written(i) = Content(i) /\ HashedIs(i, Written(i))
        /\ pc[i] \in {"update", "write"} =>
              \/ HashedIs(i, Written(i))
              \/ Written(i) = Content(i) /\ HashedIs(i, Earlier(i))

\* C16 (amended): each chunk is hashed first and written second; between
\* chunks and at the end of the stream the bytes hashed are the bytes written,
\* and while a chunk is in flight the accumulator is at most that chunk ahead
\* of the file (it stays ahead when the write fails).
C16_HashedThenWritten ==
    \A i \in Tasks :
        /\ pc[i] \in {"read", "verify"} \/ Verified(i) \/ exc[i] = "read" =>
              Written(i) = Content(i) /\ HashedIs(i, Written(i))
        /\ pc[i] = "verify" \/ Verified(i) =>
              /\ buf[i] = <<>>
              /\ DigestOf(fs[filepath(i)].data) = hexdigest(hasher[i])
        /\ pc[i] = "update" =>
              Written(i) = Earlier(i) /\ HashedIs(i, Written(i))
        /\ pc[i] = "write" =>
              /\ Written(i) = Earlier(i)
              /\ HashedIs(i, Content(i))
              /\ chunk[i] = received[i][Len(received[i])]
        /\ exc[i] = "write" =>
              /\ Written(i) \in StrictPrefixes(Content(i))
              /\ HashedIs(i, Content(i))
        /\ exc[i] = "close" =>
              /\ Written(i) \in Prefixes(Content(i))
              /\ HashedIs(i, Content(i))

C16_Witness ==
    \E i \in Tasks :
        /\ pc[i] = "write"
        /\ HashedIs(i, Written(i) \o chunk[i])
        /\ ~HashedIs(i, Written(i))

\* the tasks that have the file at path p open for writing
Writers(p) == {i \in Tasks : pc[i] \in {"read", "update", "write"} /\ filepath(i) = p}

\* C20: no two tasks have the same destination file open for writing; the
\* tasks' destination paths are pairwise distinct, and what a task leaves in
\* its file is what that task alone wrote, under any interleaving.
C20_DisjointDestinations ==
    /\ \A i, j \in Tasks : i # j => filepath(i) # filepath(j)
    /\ \A p \in DOMAIN fs : Cardinality(Writers(p)) <= 1
    /\ \A i \in Tasks :
          /\ pc[i] = "done" /\ exc[i] \in {"none", "read"} => fs[filepath(i)] = File(Content(i))
          /\ pc[i] = "done" /\ exc[i] \in {"write", "close"} =>
                /\ fs[filepath(i)].exists
                /\ fs[filepath(i)].data \in Prefixes(Content(i))

C20_Witness ==
    \E i, j \in Tasks :
        /\ i # j
        /\ pc[i] = "write" /\ pc[j] = "write"
        /\ chunk[i] # chunk[j]
        /\ Writers(filepath(i)) = {i}
        /\ Writers(filepath(j)) = {j}

\* the tasks submitted to the pool that no worker has taken yet
Pending == {i \in 1..submitted : pc[i] = "queued"}
\* a worker is idle, or the pool may still create one
WorkerIdle == Cardinality(Running) < max_workers

\* a call of download_texture begins in this step only if the calls of all
\* tasks before it in the manifest have begun
BeginInOrder ==
    \A j \in Tasks : runs'[j] > runs[j] => \A i \in 1..(j - 1) : runs[i] > 0

\* a task leaves the queue in this step only if all tasks before it in the
\* manifest have left it, and only for a worker that has no task
TakenInOrder ==
    \A j \in Tasks :
        (pc[j] = "queued" /\ pc'[j] # "queued") =>
            /\ j <= submitted
            /\ pc'[j] = "taken"
            /\ \A i \in 1..(j - 1) : pc[i] # "queued"
            /\ Cardinality(Running) < max_workers

\* a task that was taken is called once, stays with its worker until the call
\* ends, and keeps what the call returned
RunsOnce ==
    \A i \in Tasks :
        /\ pc[i] # "queued" => pc'[i] \notin {"queued", "taken"} \/ pc'[i] = pc[i]
        /\ runs'[i] \in {runs[i], 1}
        /\ runs[i] = 1 => runs'[i] = 1
        /\ (i \in Running /\ i \notin Running') => pc'[i] \in {"done", "raised"}
        /\ pc[i] \in {"done", "raised"} =>
              pc'[i] = pc[i] /\ outcome'[i] = outcome[i] /\ ret'[i] = ret[i]

\* a task that is pending while a worker is idle does not stay pending
PendingIsTaken ==
    \A i \in 1..MaxEntries : (i \in Pending /\ WorkerIdle) ~> (i \notin Pending)

C13_NoErrorEscapes ==
    \A i \in Tasks :
        /\ pc[i] # "raised"
        /\ pc[i] = "done" => outcome[i] \in Statuses

\* a hex digest with its letters in lower case
LowerHex(c) ==
    CASE c = "A" -> "a" [] c = "B" -> "b" [] c = "C" -> "c"
      [] c = "D" -> "d" [] c = "E" -> "e" [] c = "F" -> "f" [] OTHER -> c
Lower(digest) == [k \in 1..Len(digest) |-> LowerHex(digest[k])]

\* C17: the digests are compared as hex numbers, letter case ignored: an
\* expected digest that differs from the computed one only in case is Success.
C17_CaseInsensitiveDigest ==
    \A i \in Tasks :
        (/\ FullyReceived(i)
         /\ Verified(i)
         /\ expected_hash(i) # None
         /\ Lower(expected_hash(i)[1]) = Lower(DigestOf(Content(i))))
            => outcome[i] = "Success"

\* C18: with a destination directory that cannot be created or cannot be
\* written to, the run is aborted at startup: no task runs, none opens a
\* transport stream.
C18_UnwritableDirAborts ==
    dirstate \in {"readonly", "uncreatable"} =>
        /\ OpenStreams = {}
        /\ \A i \in Tasks : pc[i] \in {"queued", "taken", "urlopen", "raised"}

\* what the destination of task i held before the run: nothing, or the file
\* an earlier run left
Untouched(i) ==
    \/ fs[filepath(i)] = FreshDir(textures)[filepath(i)]
    \/ fs[filepath(i)] = RerunDir(textures)[filepath(i)]

\* C21: when urlopen raises, the task's destination file is neither created
\* nor modified and the task's outcome is a failure; the destination is opened
\* (and truncated) only after urlopen has returned a response.
C21_UrlOpenFailureLeavesFile ==
    \A i \in Tasks :
        /\ pc[i] \in {"queued", "taken", "urlopen"} => Untouched(i)
        /\ exc[i] = "urlopen" =>
              /\ Untouched(i)
              /\ received[i] = <<>>
              /\ pc[i] \in {"except", "newline", "return", "done"}
              /\ pc[i] # "except" => outcome[i] = "NetworkFailure"
              /\ pc[i] = "done" => ret[i] = Some(filename(i))

C21_Witness ==
    \E i, j \in Tasks :
        /\ exc[i] = "urlopen"
        /\ pc[i] = "done"
        /\ fs[filepath(i)] = File(Stale)
        /\ outcome[j] = "Success"
        /\ fs[filepath(j)] = File(Content(j))

====
